---- MODULE Spec2Model ----
(***************************************************************************)
(* Model of the Redshift duplicate-handling jobs:                          *)
(*   Check_Duplicates.py   get_duplicates_and_alert  (the checker)         *)
(*   Remove_Duplicates.py  remove_duplicates         (the remover)         *)
(* A table is a bag of rows; a row is abstracted to the two columns the    *)
(* SQL looks at, <<dateCreated, unique_key>>.  The other columns travel    *)
(* with the row through SELECT * and are never inspected.                  *)
(***************************************************************************)
EXTENDS Integers, Sequences, FiniteSets

VARIABLES main, side, cfgOk, prog, pc, idx, conn, opened, txn, runs,
          pre, found, outcome, prevOutcome, trace

vars == <<main, side, cfgOk, prog, pc, idx, conn, opened, txn, runs,
          pre, found, outcome, prevOutcome, trace>>

(* ---------------------------- bounds ----------------------------------- *)
MaxRows == 3
MaxRuns == 2

Dates == {1, 2}
Keys == {5, 7}
Rows == Dates \X Keys

(* Sections of r_duplicates.ini in file order: the connection section and  *)
(* the table sections, whose names start with 'yoda_hub'.                  *)
Sections == <<"yoda_r_lake", "yoda_hub_a", "yoda_hub_b">>
Tables == {"yoda_hub_a", "yoda_hub_b"}

(* section.startswith('yoda_hub') *)
IsTableSection(s) == s \in Tables

(* ---------------------------- bags of rows ----------------------------- *)
EmptyBag == [r \in Rows |-> 0]

RECURSIVE SumOver(_, _)
SumOver(f, S) ==
    IF S = {} THEN 0
    ELSE LET x == CHOOSE y \in S : TRUE IN f[x] + SumOver(f, S \ {x})

RowCount(m) == SumOver(m, Rows)

KeyCount(m, k) == SumOver(m, {r \in Rows : r[2] = k})

TableContents == {m \in [Rows -> 0..MaxRows] : RowCount(m) <= MaxRows}

(* ---------------------------- the SQL ---------------------------------- *)
(* SELECT dateCreated, key, count ... GROUP BY dateCreated, key            *)
(* HAVING count > 1.  The ORDER BY only orders the report.                 *)
DuplicateGroupsByKey(m) ==
    {<<r[1], r[2], KeyCount(m, r[2])>> : r \in {x \in Rows : m[x] > 0 /\ KeyCount(m, x[2]) > 1}}

DuplicateGroups(m) ==
    {<<r[1], r[2], m[r]>> : r \in {x \in Rows : m[x] > 1}}

(* ROW_NUMBER() OVER (PARTITION BY key ORDER BY dateCreated) = 1: a row of *)
(* the key with the lowest dateCreated.                                    *)
FirstDate(m, k) ==
    CHOOSE d \in Dates : m[<<d, k>>] > 0 /\ \A e \in Dates : m[<<e, k>>] > 0 => d <= e

(* Step 1 without the duplicate_rn = 1 filter: every row of a key that     *)
(* occurs more than once.                                                  *)
StagedAllCopies(m) ==
    [r \in Rows |-> IF KeyCount(m, r[2]) > 1 THEN m[r] ELSE 0]

(* Step 1: WHERE total_duplicates > 1 AND duplicate_rn = 1, with           *)
(* total_duplicates = the count of the rows of the key (PARTITION BY key).                    *)
Staged(m) ==
    [r \in Rows |-> IF KeyCount(m, r[2]) > 1 /\ r[1] = FirstDate(m, r[2]) THEN 1 ELSE 0]

StagedKeys(s) == {k \in Keys : \E d \in Dates : s[<<d, k>>] > 0}

(* Step 2 joining on dateCreated as well as on the key. *)
DeletedByPair(m, s) ==
    [r \in Rows |-> IF s[r] > 0 THEN 0 ELSE m[r]]

(* Step 2: DELETE FROM t USING t_duplicates WHERE t_duplicates.key = t.key *)
Deleted(m, s) ==
    [r \in Rows |-> IF r[2] \in StagedKeys(s) THEN 0 ELSE m[r]]

(* Step 3: INSERT INTO t SELECT * FROM t_duplicates *)
Reinserted(m, s) ==
    [r \in Rows |-> m[r] + s[r]]

NoSide == [exists |-> FALSE, cols |-> FALSE, rows |-> EmptyBag]

(* ---------------------------- control flow ----------------------------- *)
StepPc(n) ==
    CASE n = 1 -> "r_step1" [] n = 2 -> "r_step2" [] n = 3 -> "r_step3"
      [] n = 4 -> "r_step4" [] OTHER -> "r_notify"

(* A try block whose handler lets the sequence go on with the next step. *)
AfterStepSwallow(n, raised) == StepPc(n + 1)

(* try/except of remove_duplicates_from_table: a raise in any step jumps   *)
(* to the handler, a committed step falls through to the next one.         *)
AfterStep(n, raised) == IF raised THEN "r_handler" ELSE StepPc(n + 1)

Cur == Sections[idx]

Log(t, ev) == [trace EXCEPT ![t] = Append(@, ev)]

Fresh == [t \in Tables |-> "pending"]

(* ---------------------------- initial state ---------------------------- *)
Init ==
    /\ main \in [Tables -> TableContents]
    /\ side = [t \in Tables |-> NoSide]
    /\ cfgOk \in {f \in [Tables -> BOOLEAN] : Cardinality({t \in Tables : ~f[t]}) <= 1}
    /\ prog = "none"
    /\ pc = "idle"
    /\ idx = 1
    /\ conn = "none"
    /\ opened = 0
    /\ txn = "idle"
    /\ runs = 0
    /\ pre = main
    /\ found = [t \in Tables |-> {}]
    /\ outcome = Fresh
    /\ prevOutcome = Fresh
    /\ trace = [t \in Tables |-> <<>>]

(* ---------------------------- the remover ------------------------------ *)
StartRun(p, first) ==
    /\ pc = "idle"
    /\ runs < MaxRuns
    /\ runs' = runs + 1
    /\ prog' = p
    /\ pc' = first
    /\ idx' = 1
    /\ conn' = "none"
    /\ opened' = 0
    /\ txn' = "idle"
    /\ pre' = main
    /\ found' = [t \in Tables |-> {}]
    /\ prevOutcome' = IF prog = "remover" THEN outcome ELSE prevOutcome
    /\ outcome' = Fresh
    /\ trace' = [t \in Tables |-> <<>>]
    /\ UNCHANGED <<main, side, cfgOk>>

RemoverStart == StartRun("remover", "r_connect")

RemoverConnect ==
    /\ pc = "r_connect"
    /\ conn' = "open"
    /\ opened' = opened + 1
    /\ pc' = "r_section"
    /\ UNCHANGED <<main, side, cfgOk, prog, idx, txn, runs, pre, found, outcome, prevOutcome, trace>>

RemoverConnectFail ==
    /\ pc = "r_connect"
    /\ pc' = "r_except"
    /\ UNCHANGED <<main, side, cfgOk, prog, idx, conn, opened, txn, runs, pre, found, outcome, prevOutcome, trace>>

RemoverLoopEnd ==
    /\ pc = "r_section"
    /\ idx > Len(Sections)
    /\ pc' = "r_finally"
    /\ UNCHANGED <<main, side, cfgOk, prog, idx, conn, opened, txn, runs, pre, found, outcome, prevOutcome, trace>>

RemoverSkipSection ==
    /\ pc = "r_section"
    /\ idx <= Len(Sections)
    /\ ~IsTableSection(Cur)
    /\ idx' = idx + 1
    /\ UNCHANGED <<main, side, cfgOk, prog, pc, conn, opened, txn, runs, pre, found, outcome, prevOutcome, trace>>

RemoverConfigOk ==
    /\ pc = "r_section"
    /\ idx <= Len(Sections)
    /\ IsTableSection(Cur)
    /\ cfgOk[Cur]
    /\ pc' = "r_check"
    /\ UNCHANGED <<main, side, cfgOk, prog, idx, conn, opened, txn, runs, pre, found, outcome, prevOutcome, trace>>

RemoverConfigMissing ==
    /\ pc = "r_section"
    /\ idx <= Len(Sections)
    /\ IsTableSection(Cur)
    /\ ~cfgOk[Cur]
    /\ outcome' = [outcome EXCEPT ![Cur] = "cfg_error"]
    /\ pc' = "r_except"
    /\ UNCHANGED <<main, side, cfgOk, prog, idx, conn, opened, txn, runs, pre, found, prevOutcome, trace>>

CheckOk ==
    /\ pc = "r_check"
    /\ found' = [found EXCEPT ![Cur] = DuplicateGroups(main[Cur])]
    /\ IF DuplicateGroups(main[Cur]) # {}
         THEN /\ pc' = "r_step1"
              /\ outcome' = [outcome EXCEPT ![Cur] = "removing"]
              /\ idx' = idx
         ELSE /\ pc' = "r_section"
              /\ outcome' = [outcome EXCEPT ![Cur] = "clean"]
              /\ idx' = idx + 1
    /\ trace' = Log(Cur, "detect")
    /\ UNCHANGED <<main, side, cfgOk, prog, conn, opened, txn, runs, pre, prevOutcome>>

CheckFail ==
    /\ pc = "r_check"
    /\ trace' = Log(Cur, "detect_error_mail")
    /\ outcome' = [outcome EXCEPT ![Cur] = "detect_error"]
    /\ pc' = "r_section"
    /\ idx' = idx + 1
    /\ UNCHANGED <<main, side, cfgOk, prog, conn, opened, txn, runs, pre, found, prevOutcome>>

StepRaise(n) ==
    /\ pc = StepPc(n)
    /\ txn' = "aborted"
    /\ trace' = Log(Cur, "raise")
    /\ pc' = AfterStep(n, TRUE)
    /\ UNCHANGED <<main, side, cfgOk, prog, idx, conn, opened, runs, pre, found, outcome, prevOutcome>>

Step1Ok ==
    /\ pc = "r_step1"
    /\ ~side[Cur].exists
    /\ side' = [side EXCEPT ![Cur] = [exists |-> TRUE, cols |-> TRUE, rows |-> Staged(main[Cur])]]
    /\ trace' = Log(Cur, "stage")
    /\ pc' = AfterStep(1, FALSE)
    /\ UNCHANGED <<main, cfgOk, prog, idx, conn, opened, txn, runs, pre, found, outcome, prevOutcome>>

Step1Raise == StepRaise(1)

Step2Ok ==
    /\ pc = "r_step2"
    /\ side[Cur].exists
    /\ main' = [main EXCEPT ![Cur] = Deleted(@, side[Cur].rows)]
    /\ trace' = Log(Cur, "delete")
    /\ pc' = AfterStep(2, FALSE)
    /\ UNCHANGED <<side, cfgOk, prog, idx, conn, opened, txn, runs, pre, found, outcome, prevOutcome>>

Step2Raise == StepRaise(2)

Step3Ok ==
    /\ pc = "r_step3"
    /\ side[Cur].exists
    /\ side[Cur].cols
    /\ side' = [side EXCEPT ![Cur].cols = FALSE]
    /\ main' = [main EXCEPT ![Cur] = Reinserted(@, side[Cur].rows)]
    /\ trace' = Log(Cur, "reinsert")
    /\ pc' = AfterStep(3, FALSE)
    /\ UNCHANGED <<cfgOk, prog, idx, conn, opened, txn, runs, pre, found, outcome, prevOutcome>>

Step3Raise == StepRaise(3)

Step4Ok ==
    /\ pc = "r_step4"
    /\ side[Cur].exists
    /\ side' = [side EXCEPT ![Cur] = NoSide]
    /\ trace' = Log(Cur, "drop")
    /\ pc' = AfterStep(4, FALSE)
    /\ UNCHANGED <<main, cfgOk, prog, idx, conn, opened, txn, runs, pre, found, outcome, prevOutcome>>

Step4Raise == StepRaise(4)

NotifySuccess ==
    /\ pc = "r_notify"
    /\ trace' = Log(Cur, "success_mail")
    /\ outcome' = [outcome EXCEPT ![Cur] = "removed"]
    /\ pc' = "r_section"
    /\ idx' = idx + 1
    /\ UNCHANGED <<main, side, cfgOk, prog, conn, opened, txn, runs, pre, found, prevOutcome>>

HandlerRollbackOk ==
    /\ pc = "r_handler"
    /\ trace' = [trace EXCEPT ![Cur] = @ \o <<"failure_mail", "rollback">>]
    /\ txn' = "idle"
    /\ outcome' = [outcome EXCEPT ![Cur] = "failed"]
    /\ pc' = "r_section"
    /\ idx' = idx + 1
    /\ UNCHANGED <<main, side, cfgOk, prog, conn, opened, runs, pre, found, prevOutcome>>

HandlerRollbackFail ==
    /\ pc = "r_handler"
    /\ trace' = [trace EXCEPT ![Cur] = @ \o <<"failure_mail", "rollback">>]
    /\ txn' = "idle"
    /\ outcome' = [outcome EXCEPT ![Cur] = "failed"]
    /\ pc' = "r_except"
    /\ UNCHANGED <<main, side, cfgOk, prog, idx, conn, opened, runs, pre, found, prevOutcome>>

RemoverExcept ==
    /\ pc = "r_except"
    /\ pc' = "r_finally"
    /\ UNCHANGED <<main, side, cfgOk, prog, idx, conn, opened, txn, runs, pre, found, outcome, prevOutcome, trace>>

RemoverFinally ==
    /\ pc = "r_finally"
    /\ conn' = IF conn = "open" THEN "closed" ELSE conn
    /\ pc' = "idle"
    /\ UNCHANGED <<main, side, cfgOk, prog, idx, opened, txn, runs, pre, found, outcome, prevOutcome, trace>>

(* ---------------------------- the checker ------------------------------ *)
CheckerStart == StartRun("checker", "c_connect")

CheckerConnect ==
    /\ pc = "c_connect"
    /\ conn' = "open"
    /\ opened' = opened + 1
    /\ pc' = "c_section"
    /\ UNCHANGED <<main, side, cfgOk, prog, idx, txn, runs, pre, found, outcome, prevOutcome, trace>>

CheckerConnectFail ==
    /\ pc = "c_connect"
    /\ pc' = "c_except"
    /\ UNCHANGED <<main, side, cfgOk, prog, idx, conn, opened, txn, runs, pre, found, outcome, prevOutcome, trace>>

CheckerLoopEnd ==
    /\ pc = "c_section"
    /\ idx > Len(Sections)
    /\ pc' = "c_return"
    /\ UNCHANGED <<main, side, cfgOk, prog, idx, conn, opened, txn, runs, pre, found, outcome, prevOutcome, trace>>

CheckerSkipSection ==
    /\ pc = "c_section"
    /\ idx <= Len(Sections)
    /\ ~IsTableSection(Cur)
    /\ idx' = idx + 1
    /\ UNCHANGED <<main, side, cfgOk, prog, pc, conn, opened, txn, runs, pre, found, outcome, prevOutcome, trace>>

CheckerTableOk ==
    /\ pc = "c_section"
    /\ idx <= Len(Sections)
    /\ IsTableSection(Cur)
    /\ cfgOk[Cur]
    /\ found' = [found EXCEPT ![Cur] = DuplicateGroups(main[Cur])]
    /\ IF DuplicateGroups(main[Cur]) # {}
         THEN /\ trace' = [trace EXCEPT ![Cur] = @ \o <<"detect", "alert_email", "alert_slack">>]
              /\ outcome' = [outcome EXCEPT ![Cur] = "alerted"]
         ELSE /\ trace' = Log(Cur, "detect")
              /\ outcome' = [outcome EXCEPT ![Cur] = "clean"]
    /\ idx' = idx + 1
    /\ UNCHANGED <<main, side, cfgOk, prog, pc, conn, opened, txn, runs, pre, prevOutcome>>

CheckerConfigMissing ==
    /\ pc = "c_section"
    /\ idx <= Len(Sections)
    /\ IsTableSection(Cur)
    /\ ~cfgOk[Cur]
    /\ outcome' = [outcome EXCEPT ![Cur] = "cfg_error"]
    /\ pc' = "c_except"
    /\ UNCHANGED <<main, side, cfgOk, prog, idx, conn, opened, txn, runs, pre, found, prevOutcome, trace>>

CheckerQueryFail ==
    /\ pc = "c_section"
    /\ idx <= Len(Sections)
    /\ IsTableSection(Cur)
    /\ cfgOk[Cur]
    /\ outcome' = [outcome EXCEPT ![Cur] = "detect_error"]
    /\ txn' = "aborted"
    /\ pc' = "c_except"
    /\ UNCHANGED <<main, side, cfgOk, prog, idx, conn, opened, runs, pre, found, prevOutcome, trace>>

CheckerExcept ==
    /\ pc = "c_except"
    /\ txn' = "idle"
    /\ pc' = "c_return"
    /\ UNCHANGED <<main, side, cfgOk, prog, idx, conn, opened, runs, pre, found, outcome, prevOutcome, trace>>

CheckerReturn ==
    /\ pc = "c_return"
    /\ conn' \in (IF conn = "open" THEN {"open", "closed"} ELSE {conn})
    /\ pc' = "idle"
    /\ UNCHANGED <<main, side, cfgOk, prog, idx, opened, txn, runs, pre, found, outcome, prevOutcome, trace>>

Next ==
    \/ RemoverStart \/ RemoverConnect \/ RemoverConnectFail \/ RemoverLoopEnd
    \/ RemoverSkipSection \/ RemoverConfigOk \/ RemoverConfigMissing
    \/ CheckOk \/ CheckFail
    \/ Step1Ok \/ Step1Raise \/ Step2Ok \/ Step2Raise
    \/ Step3Ok \/ Step3Raise \/ Step4Ok \/ Step4Raise
    \/ NotifySuccess \/ HandlerRollbackOk \/ HandlerRollbackFail
    \/ RemoverExcept \/ RemoverFinally
    \/ CheckerStart \/ CheckerConnect \/ CheckerConnectFail \/ CheckerLoopEnd
    \/ CheckerSkipSection \/ CheckerTableOk \/ CheckerConfigMissing
    \/ CheckerQueryFail \/ CheckerExcept \/ CheckerReturn

Spec == Init /\ [][Next]_vars

(* ---------------------------- properties ------------------------------- *)
OnePerPair(m) == [r \in Rows |-> IF m[r] > 0 THEN 1 ELSE 0]

DuplicatedKeys(m) == {k \in Keys : KeyCount(m, k) > 1}

Head3(s) == IF Len(s) >= 3 THEN SubSeq(s, 1, 3) ELSE <<>>

Head4(s) == IF Len(s) >= 4 THEN SubSeq(s, 1, 4) ELSE <<>>

StepEvents == <<"stage", "delete", "reinsert", "drop">>

NoSharedPair(m) == \A r \in Rows : m[r] <= 1

Has(s, ev) == \E i \in 1..Len(s) : s[i] = ev

(* C1: after all four steps succeeded on a table, the main table holds     *)
(* exactly one row for every (dateCreated, unique_key) pair it held before *)
(* the run.                                                                *)
C1_OneRowPerPair ==
    \A t \in Tables :
        (prog = "remover" /\ outcome[t] = "removed") => main[t] = OnePerPair(pre[t])

(* C2: when exactly one key value occurs more than once in the table (K    *)
(* times) and the four steps succeeded, exactly one row of that key is     *)
(* left, the rows of the other keys are untouched and the row count went   *)
(* down by K-1.                                                            *)
C2_SingleDuplicatedKey ==
    \A t \in Tables : \A k \in Keys :
        (prog = "remover" /\ outcome[t] = "removed" /\ DuplicatedKeys(pre[t]) = {k})
            => /\ KeyCount(main[t], k) = 1
               /\ \A r \in Rows : r[2] # k => main[t][r] = pre[t][r]
               /\ RowCount(main[t]) = RowCount(pre[t]) - (KeyCount(pre[t], k) - 1)

C2_Witness ==
    \E t \in Tables :
        /\ prog = "remover" /\ outcome[t] = "removed"
        /\ DuplicatedKeys(pre[t]) = {5}
        /\ pre[t][<<1, 5>>] = 3
        /\ main[t][<<1, 5>>] = 1
        /\ RowCount(main[t]) = RowCount(pre[t]) - 2

(* C3: when step 2 raises after step 1 committed, the handler issues a     *)
(* ROLLBACK, steps 3 and 4 are not executed and the main table is what it  *)
(* was before the run.                                                     *)
C3_DeleteRaiseLeavesMain ==
    \A t \in Tables :
        (prog = "remover" /\ Head3(trace[t]) = <<"detect", "stage", "raise">>)
            => /\ main[t] = pre[t]
               /\ \/ /\ trace[t] = <<"detect", "stage", "raise">>
                     /\ pc = "r_handler" /\ Cur = t /\ txn = "aborted"
                  \/ /\ trace[t] = <<"detect", "stage", "raise", "failure_mail", "rollback">>
                     /\ outcome[t] = "failed"

C3_Witness ==
    \E t \in Tables :
        /\ prog = "remover" /\ pc = "idle"
        /\ trace[t] = <<"detect", "stage", "raise", "failure_mail", "rollback">>
        /\ main[t] = pre[t]
        /\ DuplicateGroups(main[t]) # {}

(* C4: whenever the remover has finished with a table, whether the steps   *)
(* succeeded or one of them raised, the side table does not exist.         *)
C4_NoSideLeftBehind ==
    \A t \in Tables :
        (prog = "remover" /\ outcome[t] \in {"removed", "failed"}) => ~side[t].exists

(* C5: an error raised while one table section is processed does not stop  *)
(* the run: every table section after it is processed in the same run.     *)
C5_ErrorsContained ==
    \A i \in 1..Len(Sections) : \A j \in 1..Len(Sections) :
        (/\ pc = "idle" /\ prog # "none" /\ i < j
         /\ IsTableSection(Sections[i]) /\ IsTableSection(Sections[j])
         /\ outcome[Sections[i]] \in {"cfg_error", "detect_error", "failed"})
            => outcome[Sections[j]] # "pending"

(* C6: in a remover run that follows a run whose four steps succeeded on   *)
(* a table, the detector finds no duplicate group in that table, no step   *)
(* is executed on it and the table stays as the earlier run left it.       *)
C6_Idempotent ==
    \A t \in Tables :
        (prog = "remover" /\ prevOutcome[t] = "removed")
            => /\ DuplicateGroups(main[t]) = {}
               /\ found[t] = {}
               /\ main[t] = pre[t]
               /\ ~side[t].exists
               /\ outcome[t] \in {"pending", "clean", "detect_error"}
               /\ \A n \in 1..4 : ~Has(trace[t], StepEvents[n])

C6_Witness ==
    \E t \in Tables :
        /\ prog = "remover" /\ pc = "idle"
        /\ prevOutcome[t] = "removed"
        /\ outcome[t] = "clean"
        /\ trace[t] = <<"detect">>

C8_ConnectionClosed ==
    (pc = "idle" /\ prog # "none") => (opened <= 1 /\ conn # "open")

(* C9: when step 2 committed and step 3 raised, the main table holds no    *)
(* row of any staged key, before and after the handler's ROLLBACK; the     *)
(* only copy left is the one in the side table.                            *)
C9_NotAtomic ==
    \A t \in Tables :
        (prog = "remover" /\ Head4(trace[t]) = <<"detect", "stage", "delete", "raise">>)
            => /\ side[t].exists
               /\ side[t].rows = Staged(pre[t])
               /\ StagedKeys(side[t].rows) = DuplicatedKeys(pre[t])
               /\ StagedKeys(side[t].rows) # {}
               /\ \A k \in StagedKeys(side[t].rows) : KeyCount(main[t], k) = 0

C9_Witness ==
    \E t \in Tables :
        /\ prog = "remover" /\ pc = "idle"
        /\ trace[t] = <<"detect", "stage", "delete", "raise", "failure_mail", "rollback">>
        /\ KeyCount(pre[t], 5) = 3
        /\ KeyCount(main[t], 5) = 0
        /\ side[t].exists

(* C10: on a table the steps run in the order stage, delete, reinsert,     *)
(* drop; nothing runs after a step raised; the success mail comes only     *)
(* after the drop, the failure mail and the ROLLBACK only after a raise,   *)
(* and never both.                                                         *)
Committed(n) == <<"detect">> \o SubSeq(StepEvents, 1, n)

RemovalTraces ==
    {<<>>, <<"detect_error_mail">>}
    \cup {Committed(n) : n \in 0..4}
    \cup {Committed(4) \o <<"success_mail">>}
    \cup {Committed(n) \o <<"raise">> : n \in 0..3}
    \cup {Committed(n) \o <<"raise", "failure_mail", "rollback">> : n \in 0..3}

C10_StepOrder ==
    \A t \in Tables :
        prog = "remover"
            => /\ trace[t] \in RemovalTraces
               /\ (outcome[t] = "removed" <=> Has(trace[t], "success_mail"))
               /\ (outcome[t] = "failed" <=> Has(trace[t], "failure_mail"))
               /\ (Len(trace[t]) > 0 /\ trace[t][Len(trace[t])] = "raise")
                      => (pc = "r_handler" /\ Cur = t)

C10_Witness ==
    /\ prog = "remover" /\ pc = "idle"
    /\ trace["yoda_hub_a"] = Committed(4) \o <<"success_mail">>
    /\ trace["yoda_hub_b"] = Committed(2) \o <<"raise", "failure_mail", "rollback">>
====
